---- MODULE Spec2Model ----
(***************************************************************************)
(* Model of src/Gradio_UI.py: the generator pull_messages_from_step, which *)
(* turns one agent step into chat messages, and the generator              *)
(* stream_to_gradio, which drives it over the items of agent.run and ends  *)
(* with the final-answer message.                                          *)
(*                                                                         *)
(* Text is a sequence of tokens.  A token is one whitespace character, one *)
(* of the markers the regular expressions of the source look for, or an    *)
(* opaque word that contains none of them.  FENCE stands for the three     *)
(* backticks of a code fence.  The emoji that prefix the message titles    *)
(* are left out of the title strings.                                      *)
(***************************************************************************)
EXTENDS Integers, Sequences, FiniteSets, TLC

VARIABLES
    run,                  \* the items agent.run yields, each with the model's last-call counts
    exposes,              \* hasattr(agent.model, "last_input_token_count")
    i,                    \* number of items the for loop has taken from agent.run
    step_log,             \* the loop variable of stream_to_gradio
    pc,                   \* position of the two generators
    out,                  \* the messages yielded so far (message objects, shared with the consumer)
    sites,                \* for each yielded message: the item and the yield statement it came from
    parent_message_tool,  \* index in out of the retained parent message, 0 when there is none
    total_input_tokens,
    total_output_tokens,
    raised                \* the exception that ended the run, "" when there is none

vars == <<run, exposes, i, step_log, pc, out, sites, parent_message_tool,
          total_input_tokens, total_output_tokens, raised>>

----------------------------------------------------------------------------
(* Bounds of the model *)

MaxRun == 3          \* longest run of items
MaxCalls == 2        \* most tool calls in one step

----------------------------------------------------------------------------
(* Optional attributes: absent (hasattr is false), None, or set to a value *)

Absent(d) == [p |-> "absent", v |-> d]
None(d) == [p |-> "None", v |-> d]
Set(x) == [p |-> "set", v |-> x]

hasattr(f) == f.p # "absent"
is_not_None(f) == f.p = "set"

----------------------------------------------------------------------------
(* Text *)

FENCE == "'''"
END_CODE == "<end_code>"
NL == "\n"
SP == " "
PREFIX == "Execution logs:"
Whitespace == {SP, NL}

RECURSIVE lstrip(_)
lstrip(s) ==
    IF s # <<>> /\ Head(s) \in Whitespace THEN lstrip(Tail(s)) ELSE s

RECURSIVE rstrip(_)
rstrip(s) ==
    IF s # <<>> /\ s[Len(s)] \in Whitespace
    THEN rstrip(SubSeq(s, 1, Len(s) - 1))
    ELSE s

strip(s) == rstrip(lstrip(s))

\* the number of whitespace tokens s starts with: what \s* matches at its start
RECURSIVE SpaceRun(_)
SpaceRun(s) ==
    IF s # <<>> /\ Head(s) \in Whitespace THEN 1 + SpaceRun(Tail(s)) ELSE 0

Drop(s, n) == SubSeq(s, n + 1, Len(s))

StartsWith(s, t) == Len(s) >= Len(t) /\ SubSeq(s, 1, Len(t)) = t

\* re.sub(first \s* second, FENCE, s): leftmost matches, left to right
RECURSIVE SubMarkers(_, _, _)
SubMarkers(first, second, s) ==
    IF s = <<>> THEN <<>>
    ELSE LET rest == Tail(s)
             k == SpaceRun(rest)
         IN IF Head(s) = first /\ Len(rest) > k /\ rest[k + 1] = second
            THEN <<FENCE>> \o SubMarkers(first, second, Drop(rest, k + 1))
            ELSE <<Head(s)>> \o SubMarkers(first, second, rest)

\* re.sub(FENCE \s* \n \s* <end_code>, FENCE, s)
RECURSIVE SubFenceNewlineEnd(_)
SubFenceNewlineEnd(s) ==
    IF s = <<>> THEN <<>>
    ELSE LET rest == Tail(s)
             k == SpaceRun(rest)
         IN IF /\ Head(s) = FENCE
               /\ Len(rest) > k
               /\ rest[k + 1] = END_CODE
               /\ \E j \in 1..k : rest[j] = NL
            THEN <<FENCE>> \o SubFenceNewlineEnd(Drop(rest, k + 1))
            ELSE <<Head(s)>> \o SubFenceNewlineEnd(rest)

CleanModelOutput(model_output) ==
    strip(SubFenceNewlineEnd(
              SubMarkers(END_CODE, FENCE,
                  SubMarkers(FENCE, END_CODE, strip(model_output)))))

\* position of the first newline of s, 0 when there is none
RECURSIVE FirstNewline(_)
FirstNewline(s) ==
    IF s = <<>> THEN 0
    ELSE IF Head(s) = NL THEN 1
    ELSE LET r == FirstNewline(Tail(s)) IN IF r = 0 THEN 0 ELSE r + 1

\* re.sub(FENCE .*? \n, "", s): a fence and the rest of its line
RECURSIVE RemoveFenceLines(_)
RemoveFenceLines(s) ==
    IF s = <<>> THEN <<>>
    ELSE IF Head(s) = FENCE /\ FirstNewline(Tail(s)) > 0
         THEN RemoveFenceLines(Drop(Tail(s), FirstNewline(Tail(s))))
         ELSE <<Head(s)>> \o RemoveFenceLines(Tail(s))

\* re.sub(\s* <end_code> \s*, "", s)
RECURSIVE RemoveEndCode(_)
RemoveEndCode(s) ==
    IF s = <<>> THEN <<>>
    ELSE LET k == SpaceRun(s)
         IN IF Len(s) > k /\ s[k + 1] = END_CODE
            THEN RemoveEndCode(lstrip(Drop(s, k + 1)))
            ELSE <<Head(s)>> \o RemoveEndCode(Tail(s))

\* re.sub(^Execution logs:\s*, "", s)
RemoveLogsPrefix(s) ==
    IF s # <<>> /\ Head(s) = PREFIX THEN lstrip(Tail(s)) ELSE s

Digit == <<"0", "1", "2", "3", "4", "5", "6", "7", "8", "9">>

\* str(n) for n >= 0
RECURSIVE Decimal(_)
Decimal(n) ==
    IF n < 10 THEN <<Digit[n + 1]>>
    ELSE Decimal(n \div 10) \o <<Digit[(n % 10) + 1]>>

\* format(n, ",") for n >= 0
RECURSIVE Thousands(_)
Thousands(n) ==
    IF n < 1000 THEN Decimal(n)
    ELSE Thousands(n \div 1000) \o <<",">>
         \o <<Digit[((n \div 100) % 10) + 1], Digit[((n \div 10) % 10) + 1],
              Digit[(n % 10) + 1]>>

\* str(round(float(d), 2)) for a duration of ms milliseconds
Rounded(ms) ==
    LET c == (ms + 5) \div 10
        frac == c % 100
    IN Decimal(c \div 100) \o <<".">>
       \o (IF frac % 10 = 0 THEN <<Digit[(frac \div 10) + 1]>>
           ELSE <<Digit[(frac \div 10) + 1], Digit[(frac % 10) + 1]>>)

----------------------------------------------------------------------------
(* Rendering of token sequences as the strings the messages carry *)

RECURSIVE Join(_)
Join(s) == IF s = <<>> THEN "" ELSE Head(s) \o Join(Tail(s))

----------------------------------------------------------------------------
(* gr.ChatMessage: content is a text or a media reference; a metadata key  *)
(* that is not set is NoKey                                                *)

NoKey == ""

Text(s) == [text |-> s]
Media(path, mime_type) == [path |-> path, mime_type |-> mime_type]

ChatMessage(content, title, id, parent_id, status) ==
    [role |-> "assistant",
     content |-> content,
     metadata |-> [title |-> title, id |-> id, parent_id |-> parent_id,
                   status |-> status]]

----------------------------------------------------------------------------
(* pull_messages_from_step: the values it computes from the step *)

isActionStep(step) == step.type = "ActionStep"

\* the label of the header and of the footnote
StepLabel(step) ==
    IF is_not_None(step.step_number)
    THEN "Step " \o Join(Decimal(step.step_number.v))
    ELSE ""

HeaderMessage(step) ==
    ChatMessage(Text("**" \o StepLabel(step) \o "**"), NoKey, NoKey, NoKey, NoKey)

ModelOutputMessage(step) ==
    ChatMessage(Text(Join(CleanModelOutput(step.model_output.v))),
                NoKey, NoKey, NoKey, NoKey)

\* a slip that takes the last tool call for the first
first_tool_call_last(step) == step.tool_calls.v[Len(step.tool_calls.v)]

first_tool_call(step) == step.tool_calls.v[1]

used_code(step) == first_tool_call(step).name = "python_interpreter"

ParentId(step) == "call_" \o Join(Decimal(Len(step.tool_calls.v)))

\* str(args.get("answer", str(args))) for a dict, str(args).strip() otherwise
ArgumentsContent(args) ==
    IF args.isdict
    THEN IF args.has_answer THEN args.answer ELSE args.str
    ELSE strip(args.str)

CodeContent(content) ==
    LET cleaned == strip(RemoveEndCode(RemoveFenceLines(content)))
    IN IF StartsWith(cleaned, <<FENCE, "python">>)
       THEN cleaned
       ELSE <<FENCE, "python", NL>> \o cleaned \o <<NL, FENCE>>

ParentContent(step) ==
    LET content == ArgumentsContent(first_tool_call(step).arguments)
    IN IF used_code(step) THEN CodeContent(content) ELSE content

ParentMessage(step) ==
    ChatMessage(Text(Join(ParentContent(step))),
                "Used tool " \o first_tool_call(step).name,
                ParentId(step), NoKey, "pending")

\* the condition under which the execution logs are yielded
HasLogs(step) ==
    /\ is_not_None(step.observations)
    /\ strip(step.observations.v) # <<>>

LogsContent(step) == RemoveLogsPrefix(strip(step.observations.v))

LogsMessage(step) ==
    ChatMessage(Text(Join(LogsContent(step))),
                "Execution Logs", NoKey, ParentId(step), "done")

ErrorChildMessage(step) ==
    ChatMessage(Text(step.error.v), "Error", NoKey, ParentId(step), "done")

StandaloneErrorMessage(step) ==
    ChatMessage(Text(step.error.v), "Error", NoKey, NoKey, NoKey)

HasTokenCounts(step) ==
    hasattr(step.input_token_count) /\ hasattr(step.output_token_count)

\* format(None, ",") raises TypeError
TokenFormatRaises(step) ==
    /\ HasTokenCounts(step)
    /\ \/ ~is_not_None(step.input_token_count)
       \/ ~is_not_None(step.output_token_count)

token_str(step) ==
    " | Input-tokens:" \o Join(Thousands(step.input_token_count.v))
    \o " | Output-tokens:" \o Join(Thousands(step.output_token_count.v))

\* "if step_log.duration": a duration that is None or 0 is falsy
DurationTruthy(step) == is_not_None(step.duration) /\ step.duration.v # 0

\* a slip that drops the hasattr check of line 165
DurationRaises_unguarded(step) == ~DurationTruthy(step)

\* step_footnote += None raises TypeError
DurationRaises(step) == hasattr(step.duration) /\ ~DurationTruthy(step)

step_duration(step) == " | Duration: " \o Join(Rounded(step.duration.v))

step_footnote(step) ==
    StepLabel(step)
    \o (IF HasTokenCounts(step) THEN token_str(step) ELSE "")
    \o (IF hasattr(step.duration) THEN step_duration(step) ELSE "")

SpanOpen == "<span style=\"color: #bbbbc2; font-size: 12px;\">"
SpanClose == "</span> "

FootnoteMessage(step) ==
    ChatMessage(Text(SpanOpen \o step_footnote(step) \o SpanClose),
                NoKey, NoKey, NoKey, NoKey)

SeparatorMessage ==
    ChatMessage(Text("-----"), NoKey, NoKey, NoKey, NoKey)

----------------------------------------------------------------------------
(* stream_to_gradio: the values it computes *)

\* a slip that drops the isinstance check of line 200
Stamped_any(step, model) ==
    [step EXCEPT !.input_token_count = Set(model.last_input_token_count),
                 !.output_token_count = Set(model.last_output_token_count)]

\* the step after lines 200-202 have stamped it with the model's last-call counts
Stamped(step, model) ==
    IF isActionStep(step)
    THEN [step EXCEPT !.input_token_count = Set(model.last_input_token_count),
                      !.output_token_count = Set(model.last_output_token_count)]
    ELSE step

\* a slip that renders every final answer the way the last branch does
FinalAnswerMessage_fallback(final_answer) ==
    ChatMessage(Text("**Final answer:** " \o final_answer.string),
                NoKey, NoKey, NoKey, NoKey)

\* the message for final_answer = handle_agent_output_types(step_log); the item's
\* agent_type is the type of the value that call returns, string its to_string()
\* for an agent type and its str() otherwise
FinalAnswerMessage(final_answer) ==
    IF final_answer.agent_type = "AgentText"
    THEN ChatMessage(Text("**Final answer:**\n" \o final_answer.string \o "\n"),
                     NoKey, NoKey, NoKey, NoKey)
    ELSE IF final_answer.agent_type = "AgentImage"
    THEN ChatMessage(Media(final_answer.string, "image/png"),
                     NoKey, NoKey, NoKey, NoKey)
    ELSE IF final_answer.agent_type = "AgentAudio"
    THEN ChatMessage(Media(final_answer.string, "audio/wav"),
                     NoKey, NoKey, NoKey, NoKey)
    ELSE ChatMessage(Text("**Final answer:** " \o final_answer.string),
                     NoKey, NoKey, NoKey, NoKey)

----------------------------------------------------------------------------
(* The runs the model is checked on *)

NoText == <<>>

ToolCall(name, arguments) == [name |-> name, arguments |-> arguments]
DictArguments(has_answer, answer, str) ==
    [isdict |-> TRUE, has_answer |-> has_answer, answer |-> answer, str |-> str]
OtherArguments(str) ==
    [isdict |-> FALSE, has_answer |-> FALSE, answer |-> NoText, str |-> str]

CodeCall ==
    ToolCall("python_interpreter",
             DictArguments(TRUE, <<FENCE, "py", NL, "print(1)", NL, END_CODE>>,
                           <<"{'answer': 'print(1)'}">>))
SearchCall == ToolCall("web_search", OtherArguments(<<SP, "query", NL>>))
FirstCalls == {CodeCall, SearchCall}

LaterCalls ==
    {ToolCall("final_answer", DictArguments(FALSE, NoText, <<"{'x': 1}">>)),
     ToolCall("python_interpreter", OtherArguments(<<"later()">>))}

Repeat(x, n) == [k \in 1..n |-> x]

\* the tool_calls lists that start with first: first alone, or followed by
\* up to MaxCalls - 1 further calls
CallLists(first) ==
    {<<first>>} \cup
    {<<first>> \o Repeat(later, n) : later \in LaterCalls, n \in 1..(MaxCalls - 1)}

ActionStep(step_number, model_output, tool_calls, observations, error, input_token_count, output_token_count, duration) ==
    [type |-> "ActionStep",
     step_number |-> step_number,
     model_output |-> model_output,
     tool_calls |-> tool_calls,
     observations |-> observations,
     error |-> error,
     input_token_count |-> input_token_count,
     output_token_count |-> output_token_count,
     duration |-> duration,
     agent_type |-> "other",
     string |-> "ActionStep(...)"]

\* an item of agent.run that is no ActionStep: handle_agent_output_types turns
\* it into a value of type agent_type
OtherItem(agent_type, string) ==
    [type |-> "other",
     step_number |-> Absent(0),
     model_output |-> Absent(NoText),
     tool_calls |-> Absent(<<>>),
     observations |-> Absent(NoText),
     error |-> Absent(""),
     input_token_count |-> Absent(0),
     output_token_count |-> Absent(0),
     duration |-> Absent(0),
     agent_type |-> agent_type,
     string |-> string]

ModelOutputs ==
    {Absent(NoText), None(NoText),
     Set(<<SP, "x", NL, FENCE, NL, END_CODE, NL>>)}

ToolCallChoices ==
    {Absent(<<>>), None(<<>>), Set(<<>>)}
    \cup {Set(calls) : calls \in UNION {CallLists(first) : first \in FirstCalls}}

ObservationChoices ==
    {Absent(NoText), None(NoText), Set(NoText), Set(<<SP, NL>>),
     Set(<<PREFIX, NL>>), Set(<<PREFIX, SP, SP, NL, SP, "done", NL>>),
     Set(<<"done">>)}

ErrorChoices == {Absent(""), None(""), Set("boom")}

TokenCountChoices ==
    {<<Absent(0), Absent(0)>>, <<None(0), None(0)>>, <<Set(1200), Set(5)>>}

DurationChoices == {Absent(0), None(0), Set(0), Set(1236)}

\* every combination of the optional fields of an action step
WideSteps ==
    {ActionStep(n, m, t, o, e, c[1], c[2], d) :
        n \in {None(0), Set(1)}, m \in ModelOutputs, t \in ToolCallChoices,
        o \in ObservationChoices, e \in ErrorChoices, c \in TokenCountChoices,
        d \in DurationChoices}

Usage(input, output) ==
    [last_input_token_count |-> input, last_output_token_count |-> output]

\* a step with only model_output
ThoughtStep ==
    ActionStep(Set(1), Set(<<"thinking">>), Absent(<<>>), Absent(NoText),
               Absent(""), Absent(0), Absent(0), Absent(0))

\* a step with tool calls and an error, and no observations
FailedCallStep(calls) ==
    ActionStep(Set(2), Absent(NoText), Set(calls), Absent(NoText),
               Set("boom"), Absent(0), Absent(0), Absent(0))

\* the plain string "42", as handle_agent_output_types may return it
FinalValues == {OtherItem("AgentText", "42"), OtherItem("other", "42")}

Answers ==
    FinalValues \cup {OtherItem("AgentImage", "/tmp/out.png"),
                      OtherItem("AgentAudio", "/tmp/out.wav")}

StreamItems ==
    {[step |-> ThoughtStep, model |-> Usage(1200, 5)]}
    \cup {[step |-> FailedCallStep(calls), model |-> Usage(7, 3)] :
             calls \in CallLists(SearchCall)}
    \cup {[step |-> v, model |-> Usage(7, 3)] : v \in FinalValues}

SeqsUpTo(S, n) == UNION {[1..k -> S] : k \in 1..n}

StreamRuns == SeqsUpTo(StreamItems, MaxRun)

SingleRuns ==
    {<<[step |-> s, model |-> Usage(7, 3)]>> : s \in WideSteps \cup Answers}

----------------------------------------------------------------------------
(* The two generators *)

ParentStatus ==
    IF parent_message_tool = 0 THEN NoKey
    ELSE out[parent_message_tool].metadata.status

\* "yield message" at the yield statement site
Yield(message, site) ==
    /\ out' = Append(out, message)
    /\ sites' = Append(sites, [item |-> i, site |-> site,
                               parent_status |->
                                   IF site = "parent" THEN message.metadata.status
                                   ELSE ParentStatus])

NoYield == UNCHANGED <<out, sites>>

Raise(exception) ==
    /\ pc' = "raised"
    /\ raised' = exception

Init ==
    /\ \/ run \in StreamRuns /\ exposes \in BOOLEAN
       \/ run \in SingleRuns /\ exposes = FALSE
    /\ i = 0
    /\ step_log = OtherItem("other", "")
    /\ pc = "for"
    /\ out = <<>>
    /\ sites = <<>>
    /\ parent_message_tool = 0
    /\ total_input_tokens = 0
    /\ total_output_tokens = 0
    /\ raised = ""

\* lines 193-207: the for loop takes the next item, tracks the tokens and
\* starts pull_messages_from_step on it; line 57 ends that generator at once
\* for an item that is no action step
NextStep ==
    /\ pc = "for"
    /\ i < Len(run)
    /\ i' = i + 1
    /\ LET item == run[i + 1]
           stamped == IF exposes THEN Stamped(item.step, item.model) ELSE item.step
       IN /\ step_log' = stamped
          /\ IF exposes
             THEN /\ total_input_tokens' =
                         total_input_tokens + item.model.last_input_token_count
                  /\ total_output_tokens' =
                         total_output_tokens + item.model.last_output_token_count
             ELSE UNCHANGED <<total_input_tokens, total_output_tokens>>
          /\ pc' = IF isActionStep(stamped) THEN "header" ELSE "for"
    /\ NoYield
    /\ UNCHANGED <<run, exposes, parent_message_tool, raised>>

\* lines 59-62
Header ==
    /\ pc = "header"
    /\ Yield(HeaderMessage(step_log), "header")
    /\ pc' = "model_output"
    /\ UNCHANGED <<run, exposes, i, step_log, parent_message_tool,
                   total_input_tokens, total_output_tokens, raised>>

\* lines 65-79
ModelOutput ==
    /\ pc = "model_output"
    /\ IF hasattr(step_log.model_output) /\ is_not_None(step_log.model_output)
       THEN Yield(ModelOutputMessage(step_log), "model_output")
       ELSE NoYield
    /\ pc' = "tool_calls"
    /\ UNCHANGED <<run, exposes, i, step_log, parent_message_tool,
                   total_input_tokens, total_output_tokens, raised>>

\* lines 82-116; tool_calls[0] raises IndexError on an empty list
ToolCalls ==
    /\ pc = "tool_calls"
    /\ IF hasattr(step_log.tool_calls) /\ is_not_None(step_log.tool_calls)
       THEN IF step_log.tool_calls.v = <<>>
            THEN /\ Raise("IndexError")
                 /\ NoYield
                 /\ UNCHANGED parent_message_tool
            ELSE /\ Yield(ParentMessage(step_log), "parent")
                 /\ parent_message_tool' = Len(out) + 1
                 /\ pc' = "observations"
                 /\ UNCHANGED raised
       ELSE /\ pc' = "standalone_error"
            /\ NoYield
            /\ UNCHANGED <<parent_message_tool, raised>>
    /\ UNCHANGED <<run, exposes, i, step_log, total_input_tokens,
                   total_output_tokens>>

\* lines 119-133
ExecutionLogs ==
    /\ pc = "observations"
    /\ IF hasattr(step_log.observations) /\ HasLogs(step_log)
       THEN IF strip(step_log.observations.v) # <<>>
            THEN Yield(LogsMessage(step_log), "logs")
            ELSE NoYield
       ELSE NoYield
    /\ pc' = "error"
    /\ UNCHANGED <<run, exposes, i, step_log, parent_message_tool,
                   total_input_tokens, total_output_tokens, raised>>

\* lines 136-145
ErrorChild ==
    /\ pc = "error"
    /\ IF hasattr(step_log.error) /\ is_not_None(step_log.error)
       THEN Yield(ErrorChildMessage(step_log), "error_child")
       ELSE NoYield
    /\ pc' = "parent_done"
    /\ UNCHANGED <<run, exposes, i, step_log, parent_message_tool,
                   total_input_tokens, total_output_tokens, raised>>

\* a slip that leaves out line 148
ParentDone_skipped ==
    /\ pc = "parent_done"
    /\ pc' = "footnote"
    /\ UNCHANGED <<run, exposes, i, step_log, out, sites, parent_message_tool,
                   total_input_tokens, total_output_tokens, raised>>

\* line 148: the retained message is changed in place, nothing is yielded
ParentDone ==
    /\ pc = "parent_done"
    /\ out' = [out EXCEPT ![parent_message_tool].metadata.status = "done"]
    /\ pc' = "footnote"
    /\ UNCHANGED <<run, exposes, i, step_log, sites, parent_message_tool,
                   total_input_tokens, total_output_tokens, raised>>

\* lines 151-156
StandaloneError ==
    /\ pc = "standalone_error"
    /\ IF hasattr(step_log.error) /\ is_not_None(step_log.error)
       THEN Yield(StandaloneErrorMessage(step_log), "standalone_error")
       ELSE NoYield
    /\ pc' = "footnote"
    /\ UNCHANGED <<run, exposes, i, step_log, parent_message_tool,
                   total_input_tokens, total_output_tokens, raised>>

\* lines 159-173
Footnote ==
    /\ pc = "footnote"
    /\ IF TokenFormatRaises(step_log) \/ DurationRaises(step_log)
       THEN /\ Raise("TypeError")
            /\ NoYield
       ELSE /\ Yield(FootnoteMessage(step_log), "footnote")
            /\ pc' = "separator"
            /\ UNCHANGED raised
    /\ UNCHANGED <<run, exposes, i, step_log, parent_message_tool,
                   total_input_tokens, total_output_tokens>>

\* line 174, after which the generator ends and the for loop goes on
Separator ==
    /\ pc = "separator"
    /\ Yield(SeparatorMessage, "separator")
    /\ parent_message_tool' = 0
    /\ pc' = "for"
    /\ UNCHANGED <<run, exposes, i, step_log, total_input_tokens,
                   total_output_tokens, raised>>

\* lines 209-230: agent.run is exhausted, step_log is the last item
FinalAnswer ==
    /\ pc = "for"
    /\ i = Len(run)
    /\ Yield(FinalAnswerMessage(step_log), "final")
    /\ pc' = "done"
    /\ UNCHANGED <<run, exposes, i, step_log, parent_message_tool,
                   total_input_tokens, total_output_tokens, raised>>

Next ==
    \/ NextStep
    \/ Header
    \/ ModelOutput
    \/ ToolCalls
    \/ ExecutionLogs
    \/ ErrorChild
    \/ ParentDone
    \/ StandaloneError
    \/ Footnote
    \/ Separator
    \/ FinalAnswer

Spec == Init /\ [][Next]_vars

----------------------------------------------------------------------------
(* Vocabulary of the properties *)

Finished == pc \in {"done", "raised"}

\* the generator started on item k has ended, by returning or by raising
Ended(k) == k < i \/ (k = i /\ pc \in {"for", "done", "raised"})

\* the positions in out of the messages of item k
PositionsOf(k) == {q \in 1..Len(sites) : sites[q].item = k /\ sites[q].site # "final"}

Count(k, site) == Cardinality({q \in PositionsOf(k) : sites[q].site = site})

SiteNames == [q \in 1..Len(sites) |-> sites[q].site]

Min(S) == CHOOSE x \in S : \A y \in S : x <= y
Max(S) == CHOOSE x \in S : \A y \in S : x >= y

\* the messages of item k as they are in out now
MessagesOf(k) ==
    IF PositionsOf(k) = {} THEN <<>>
    ELSE SubSeq(out, Min(PositionsOf(k)), Max(PositionsOf(k)))

Rank(site) ==
    CASE site = "header" -> 1
      [] site = "model_output" -> 2
      [] site = "parent" -> 3
      [] site = "logs" -> 4
      [] site = "error_child" -> 5
      [] site = "standalone_error" -> 5
      [] site = "footnote" -> 6
      [] site = "separator" -> 7
      [] OTHER -> 8

ActionItems == {k \in 1..i : isActionStep(run[k].step)}

HasToolCall(step) == is_not_None(step.tool_calls) /\ step.tool_calls.v # <<>>

NoToolCalls(step) == ~is_not_None(step.tool_calls) \/ step.tool_calls.v = <<>>

----------------------------------------------------------------------------
(* C1: when stream_to_gradio has ended, the transcript holds the messages  *)
(* of the items in step order, every action step's messages up to its      *)
(* separator, followed by exactly one final-answer message, which is the   *)
(* last message.                                                           *)
C1_TranscriptIsStepsThenFinal ==
    Finished =>
        /\ \A a, b \in 1..Len(sites) : a < b => sites[a].item <= sites[b].item
        /\ \A k \in 1..Len(run) :
              isActionStep(run[k].step) => Count(k, "separator") = 1
        /\ Cardinality({q \in 1..Len(sites) : sites[q].site = "final"}) = 1
        /\ sites[Len(sites)].site = "final"

(* C2: the messages of an action step come in the fixed order, each kind   *)
(* at most once; the header is the first and the separator the last.       *)
C2_FixedOrder ==
    \A k \in ActionItems :
        /\ \A a, b \in PositionsOf(k) :
              a < b => Rank(sites[a].site) < Rank(sites[b].site)
        /\ PositionsOf(k) # {} => sites[Min(PositionsOf(k))].site = "header"
        /\ Ended(k) =>
              /\ PositionsOf(k) # {}
              /\ sites[Max(PositionsOf(k))].site = "separator"


\* the action steps with a tool call whose generator has passed the tool-call block
PastToolCall(k) ==
    k < i \/ (k = i /\ pc \notin {"header", "model_output", "tool_calls"})

ToolCallItems == {k \in ActionItems : HasToolCall(run[k].step)}

ParentPosition(k) == CHOOSE q \in PositionsOf(k) : sites[q].site = "parent"

(* C3: in a step with a tool call the parent message is yielded exactly    *)
(* once, with status pending; it is still pending when the execution logs  *)
(* and the error child are yielded; the same message object is done when   *)
(* the footnote is yielded; a status never goes from done back to          *)
(* pending; and setting the status yields no message.                      *)
C3_ParentPendingThenDone ==
    /\ [](\A k \in ToolCallItems :
             /\ Count(k, "parent") = (IF PastToolCall(k) THEN 1 ELSE 0)
             /\ \A q \in PositionsOf(k) :
                   /\ sites[q].site \in {"parent", "logs", "error_child"}
                         => sites[q].parent_status = "pending"
                   /\ sites[q].site \in {"footnote", "separator"}
                         => /\ sites[q].parent_status = "done"
                            /\ out[ParentPosition(k)].metadata.status = "done"
                            /\ out[ParentPosition(k)].metadata.id # NoKey)
    /\ [][/\ Len(out') >= Len(out)
          /\ \A q \in 1..Len(out) :
                out[q].metadata.status = "done" => out'[q].metadata.status = "done"
          /\ (\E q \in 1..Len(out) : out'[q] # out[q])
                => Len(out') = Len(out) /\ sites' = sites]_vars

\* a step with a tool call has yielded its logs, its error child and its footnote
C3_Witness ==
    \E k \in ToolCallItems :
        /\ Count(k, "logs") = 1
        /\ Count(k, "error_child") = 1
        /\ Count(k, "footnote") = 1

(* C4: whatever optional fields of an action step are present, absent or   *)
(* None, the extraction ends without raising and has yielded a header, a   *)
(* footnote and a separator; with a duration that is absent, None or zero  *)
(* and no token counts the footnote carries only the step label.           *)
C4_ExtractionIsTotal ==
    /\ raised = ""
    /\ \A k \in ActionItems :
          Ended(k) =>
              /\ Count(k, "header") = 1
              /\ Count(k, "footnote") = 1
              /\ Count(k, "separator") = 1
              /\ (~DurationTruthy(run[k].step) /\ ~exposes
                     /\ ~HasTokenCounts(run[k].step))
                    => \E q \in PositionsOf(k) :
                          /\ sites[q].site = "footnote"
                          /\ out[q].content =
                                Text(SpanOpen \o StepLabel(run[k].step) \o SpanClose)

RECURSIVE SumInput(_)
SumInput(k) ==
    IF k = 0 THEN 0 ELSE SumInput(k - 1) + run[k].model.last_input_token_count

RECURSIVE SumOutput(_)
SumOutput(k) ==
    IF k = 0 THEN 0 ELSE SumOutput(k - 1) + run[k].model.last_output_token_count

(* C5: when the model exposes its last-call token counts, the running      *)
(* totals after k items are the sums of the counts read at those items; an *)
(* action step carries the counts read at its own item, not the totals,    *)
(* before any of its messages is extracted; an item that is no action step *)
(* is left unstamped.                                                      *)
C5_TokenTotalsAndStamps ==
    exposes =>
        /\ total_input_tokens = SumInput(i)
        /\ total_output_tokens = SumOutput(i)
        /\ i >= 1 =>
              IF isActionStep(run[i].step)
              THEN /\ step_log.input_token_count =
                         Set(run[i].model.last_input_token_count)
                   /\ step_log.output_token_count =
                         Set(run[i].model.last_output_token_count)
                   /\ \A f \in {"step_number", "model_output", "tool_calls",
                                "observations", "error", "duration"} :
                         step_log[f] = run[i].step[f]
              ELSE step_log = run[i].step

\* the second item is an action step about to be extracted, stamped with counts
\* that differ from the running totals
C5_Witness ==
    /\ exposes
    /\ i = 2
    /\ pc = "header"
    /\ step_log.input_token_count.v # total_input_tokens
    /\ step_log.output_token_count.v # total_output_tokens
    /\ \E k \in 1..i : ~isActionStep(run[k].step)

Last(s) == s[Len(s)]

(* C6: the final message renders the classification of the last item of   *)
(* the run, in one of four ways: Text, Image, Audio, or anything else.     *)
C6_FinalAnswerOfLastItem ==
    /\ (pc = "for" /\ i = Len(run)) => ENABLED FinalAnswer
    /\ pc = "done" =>
          LET final_answer == run[Len(run)].step
              message == Last(out)
          IN /\ raised = ""
             /\ Last(sites).site = "final"
             /\ Cardinality({q \in 1..Len(sites) : sites[q].site = "final"}) = 1
             /\ message.metadata = [title |-> NoKey, id |-> NoKey,
                                    parent_id |-> NoKey, status |-> NoKey]
             /\ CASE final_answer.agent_type = "AgentText" ->
                       message.content =
                           Text("**Final answer:**\n" \o final_answer.string \o "\n")
                  [] final_answer.agent_type = "AgentImage" ->
                       message.content = Media(final_answer.string, "image/png")
                  [] final_answer.agent_type = "AgentAudio" ->
                       message.content = Media(final_answer.string, "audio/wav")
                  [] OTHER ->
                       message.content =
                           Text("**Final answer:** " \o final_answer.string)

\* a run of several items has ended, its last item classified otherwise than its first
C6_Witness ==
    /\ pc = "done"
    /\ Len(run) >= 2
    /\ run[1].step.agent_type # run[Len(run)].step.agent_type
    /\ run[Len(run)].step.agent_type = "AgentText"

\* a run that ends with an image
C6_WitnessImage ==
    pc = "done" /\ run[Len(run)].step.agent_type = "AgentImage"


\* the end-to-end run: a step with only model_output, a step with one tool call
\* and an error and no observations, then the plain string "42"
EndToEndRun ==
    /\ Len(run) = 3
    /\ run[1].step = ThoughtStep
    /\ run[2].step = FailedCallStep(<<SearchCall>>)
    /\ run[3].step \in FinalValues

ParentStatuses == [q \in 1..Len(sites) |-> sites[q].parent_status]

(* C7, as stated: the end-to-end run yields header and model output for    *)
(* step 1, header, parent, error child, footnote and separator for step 2, *)
(* and a final message with content "**Final answer:** 42".                *)
C7_EndToEndAsStated ==
    (EndToEndRun /\ Finished) =>
        /\ SiteNames = <<"header", "model_output",
                         "header", "parent", "error_child", "footnote", "separator",
                         "final">>
        /\ Last(out).content = Text("**Final answer:** 42")

(* C7, amended: the end-to-end run ends without raising; step 1 yields     *)
(* header, model output, footnote and separator; step 2 yields header,     *)
(* parent (pending), error child (parent still pending), footnote and      *)
(* separator (parent done); the final message is "**Final answer:**\n42\n" *)
(* when the string is classified as Text and "**Final answer:** 42" when   *)
(* it is left unclassified.                                                *)
C7_EndToEnd ==
    (EndToEndRun /\ Finished) =>
        /\ pc = "done"
        /\ SiteNames = <<"header", "model_output", "footnote", "separator",
                         "header", "parent", "error_child", "footnote", "separator",
                         "final">>
        /\ ParentStatuses = <<NoKey, NoKey, NoKey, NoKey,
                              NoKey, "pending", "pending", "done", "done",
                              NoKey>>
        /\ out[1].content = Text("**Step 1**")
        /\ out[2].content = Text("thinking")
        /\ out[5].content = Text("**Step 2**")
        /\ out[6].metadata = [title |-> "Used tool web_search", id |-> "call_1",
                              parent_id |-> NoKey, status |-> "done"]
        /\ out[7].metadata = [title |-> "Error", id |-> NoKey,
                              parent_id |-> "call_1", status |-> "done"]
        /\ out[9].content = Text("-----")
        /\ out[10].content =
              (IF run[3].step.agent_type = "AgentText"
               THEN Text("**Final answer:**\n42\n")
               ELSE Text("**Final answer:** 42"))

C7_Witness == EndToEndRun /\ pc = "done" /\ Len(out) = 10

\* two action steps with a tool call that differ at most in the tool calls
\* after the first one
EqualButLaterCalls(s, t) ==
    /\ isActionStep(s) /\ isActionStep(t)
    /\ HasToolCall(s) /\ HasToolCall(t)
    /\ [s EXCEPT !.tool_calls = Set(<<s.tool_calls.v[1]>>)]
          = [t EXCEPT !.tool_calls = Set(<<t.tool_calls.v[1]>>)]

\* two extracted items of the run whose steps, and the counts stamped on them,
\* differ at most in the later tool calls
LaterCallPairs ==
    {p \in (1..i) \X (1..i) :
        /\ p[1] < p[2]
        /\ Ended(p[1]) /\ Ended(p[2])
        /\ EqualButLaterCalls(run[p[1]].step, run[p[2]].step)
        /\ run[p[1]].model = run[p[2]].model}

(* C8, as stated: two steps that differ only in the tool calls after the   *)
(* first yield identical message sequences, equal in content, title, id,   *)
(* parent_id and status.                                                   *)
C8_LaterCallsAsStated ==
    \A p \in LaterCallPairs : MessagesOf(p[1]) = MessagesOf(p[2])

(* C8, amended: two steps that differ only in the tool calls after the     *)
(* first yield message sequences of the same length, with one parent each, *)
(* equal message by message in content, title and status; id and           *)
(* parent_id are "call_" followed by the number of tool calls of the step, *)
(* so they are equal when the two steps have as many tool calls.           *)
C8_LaterCalls ==
    \A p \in LaterCallPairs :
        LET a == MessagesOf(p[1])
            b == MessagesOf(p[2])
            n(k) == Join(Decimal(Len(run[k].step.tool_calls.v)))
            IdOk(m, k) ==
                /\ m.metadata.id \in {NoKey, "call_" \o n(k)}
                /\ m.metadata.parent_id \in {NoKey, "call_" \o n(k)}
        IN /\ Len(a) = Len(b)
           /\ Count(p[1], "parent") = 1 /\ Count(p[2], "parent") = 1
           /\ \A q \in 1..Len(a) :
                 /\ a[q].content = b[q].content
                 /\ a[q].metadata.title = b[q].metadata.title
                 /\ a[q].metadata.status = b[q].metadata.status
                 /\ (a[q].metadata.id = NoKey) = (b[q].metadata.id = NoKey)
                 /\ (a[q].metadata.parent_id = NoKey) = (b[q].metadata.parent_id = NoKey)
                 /\ IdOk(a[q], p[1]) /\ IdOk(b[q], p[2])
           /\ Len(run[p[1]].step.tool_calls.v) = Len(run[p[2]].step.tool_calls.v)
                 => a = b

\* a run has extracted two steps with different numbers of tool calls, and two
\* with as many tool calls but different later calls
C8_Witness ==
    /\ \E p \in LaterCallPairs :
          Len(run[p[1]].step.tool_calls.v) # Len(run[p[2]].step.tool_calls.v)
    /\ \E p \in LaterCallPairs :
          /\ Len(run[p[1]].step.tool_calls.v) = Len(run[p[2]].step.tool_calls.v)
          /\ run[p[1]].step # run[p[2]].step

\* the generator of item k has passed the tool-call and error blocks
PastErrors(k) ==
    k < i \/ (k = i /\ pc \in {"footnote", "separator", "for", "done", "raised"})

(* C9: for an action step whose tool_calls is absent, None or empty the    *)
(* tool-call block does not fail and yields no parent and no child; with   *)
(* an error it yields one standalone error message, titled Error, without  *)
(* id, parent_id or status, between the model output and the footnote;     *)
(* without an error it yields nothing there.                               *)
C9_NoToolCalls ==
    \A k \in ActionItems :
        (NoToolCalls(run[k].step) /\ PastToolCall(k)) =>
            /\ raised # "IndexError"
            /\ Count(k, "parent") = 0
            /\ Count(k, "logs") = 0
            /\ Count(k, "error_child") = 0
            /\ PastErrors(k) =>
                  /\ Count(k, "standalone_error") =
                        (IF is_not_None(run[k].step.error) THEN 1 ELSE 0)
                  /\ \A q \in PositionsOf(k) :
                        sites[q].site = "standalone_error" =>
                            out[q].metadata = [title |-> "Error", id |-> NoKey,
                                               parent_id |-> NoKey, status |-> NoKey]

\* what is left of observations after trimming it and removing the leading
\* prefix with the whitespace around it
LogsRemainder(observations) == strip(RemoveLogsPrefix(strip(observations)))

\* the generator of item k has passed the execution-logs block
PastLogs(k) ==
    k < i \/ (k = i /\ pc \notin {"header", "model_output", "tool_calls",
                                   "observations"})

(* C10: for an action step with a tool call, an execution-logs child is    *)
(* yielded exactly when observations is present and something is left of   *)
(* it after trimming and removing the "Execution logs:" prefix; its        *)
(* content is then what is left.                                           *)
C10_LogsOnlyWithContent ==
    \A k \in ToolCallItems :
        PastLogs(k) =>
            LET step == run[k].step
                remains == /\ is_not_None(step.observations)
                           /\ LogsRemainder(step.observations.v) # <<>>
            IN /\ Count(k, "logs") = (IF remains THEN 1 ELSE 0)
               /\ \A q \in PositionsOf(k) :
                     sites[q].site = "logs" =>
                         out[q].content = Text(Join(LogsRemainder(step.observations.v)))


\* the positions in out of the parent messages and of the child messages
ParentPositions == {q \in 1..Len(sites) : sites[q].site = "parent"}
ChildPositions == {q \in 1..Len(sites) : sites[q].site \in {"logs", "error_child"}}

\* every child carries the id of the parent yielded earlier in its own step
ChildrenLinked ==
    \A c \in ChildPositions :
        \E q \in ParentPositions :
            /\ q < c
            /\ sites[q].item = sites[c].item
            /\ out[q].metadata.id # NoKey
            /\ out[c].metadata.parent_id = out[q].metadata.id

(* C11: every child message carries a parent_id equal to the id of the     *)
(* parent message yielded earlier in the same step, and the parent         *)
(* messages of two different steps of a run never carry the same id, so a  *)
(* parent_id identifies exactly one parent message of the transcript.      *)
C11_ParentIdsIdentifyOneParent ==
    /\ ChildrenLinked
    /\ \A a, b \in ParentPositions :
          sites[a].item # sites[b].item => out[a].metadata.id # out[b].metadata.id
    /\ \A c \in ChildPositions :
          Cardinality({q \in ParentPositions :
                          out[q].metadata.id = out[c].metadata.parent_id}) = 1

====
